---- MODULE Spec2Model ----
(***************************************************************************)
(* A model of scripts/train.py: train_and_evaluate (data loading, the      *)
(* shuffle-order check, model construction, the epoch loop with early      *)
(* stopping, the test phase) and main_train (one call per configuration,   *)
(* the result records, the incremental CSV append, the loss-history        *)
(* rewrite and the final rewrite of both files).                           *)
(*                                                                         *)
(* Floats are a scale model of IEEE-754 binary64: a value is the integer   *)
(* count of the format's least quantum, a finite value is representable    *)
(* when it has at most MantBits significant bits, and division rounds to   *)
(* the nearest representable value, ties to even.  PosInf and NaN are two  *)
(* values above every finite one; comparisons with NaN are false.          *)
(***************************************************************************)
EXTENDS Integers, Sequences, FiniteSets, TLC

VARIABLES
    pc,                          \* the statement main_train / train_and_evaluate is at
    error,                       \* the exception that ended the run, "none" while running
    model_type,                  \* argument of main_train
    configurations,              \* the list json.load returned (line 153)
    idx,                         \* enumerate index of the configuration being processed
    results,                     \* main_train's list of result records
    all_losses,                  \* main_train's dict model_<idx> -> loss history
    csv_file,                    \* results_<model>_<dataset>.csv on disk
    json_file,                   \* losses_<model>_<dataset>.json on disk
    shuffle_train,               \* (shuffle_order_rows1, shuffle_order_columns1)
    shuffle_test,                \* (shuffle_order_rows, shuffle_order_columns)
    train_batches,               \* len(train_loader)
    val_batches,                 \* len(val_loader)
    model,                       \* the model instance, NoModel before it is built
    best_val_loss,
    epochs_without_improvement,
    epoch,                       \* number of loop iterations of range(25) completed
    train_losses,
    val_losses,
    stopped_early,               \* the break of line 115 was taken
    ret,                         \* the tuple train_and_evaluate returned
    train_feed,                  \* epoch -> cumulative training loss the batches produce
    val_feed                     \* epoch -> cumulative validation loss the batches produce

vars == <<pc, error, model_type, configurations, idx, results, all_losses, csv_file,
          json_file, shuffle_train, shuffle_test, train_batches, val_batches, model,
          best_val_loss, epochs_without_improvement, epoch, train_losses, val_losses,
          stopped_early, ret, train_feed, val_feed>>

main_vars == <<model_type, configurations, idx, results, all_losses, csv_file, json_file>>

loop_vars == <<best_val_loss, epochs_without_improvement, epoch, train_losses,
               val_losses, stopped_early>>

---------------------------------------------------------------------------
(* Bounds of the model and constants of the program.                       *)

MantBits == 4

PrefixLen == 3

MaxPeriod == 6

MaxConfigs == 2

MaxEpochs == 25

\* a patience one epoch short
PatienceOfFour == 5 - 1

patience == 5

---------------------------------------------------------------------------
(* Floats.                                                                 *)

MaxFinite == (2 ^ MantBits - 1) * (2 ^ MantBits)

PosInf == MaxFinite + 1

NaN == MaxFinite + 2

IsFinite(x) == x <= MaxFinite

\* the quantum (unit in the last place) of the binade that holds v
RECURSIVE Quantum(_)
Quantum(v) == IF v < 2 ^ MantBits THEN 1 ELSE 2 * Quantum(v \div 2)

\* the float of the integer v (v < 2^MantBits): v scaled into the normal range
Fl(v) == v * (2 ^ MantBits)

\* a < b on floats: false when either side is NaN
FLess(a, b) == a # NaN /\ b # NaN /\ a < b

\* x / n for a float x and an int n > 0, rounded to nearest, ties to even
FDiv(x, n) ==
    IF ~IsFinite(x) THEN x
    ELSE LET q  == Quantum(x \div n)
             lo == ((x \div n) \div q) * q
             r  == x - lo * n
         IN  IF 2 * r < q * n THEN lo
             ELSE IF 2 * r > q * n THEN lo + q
             ELSE IF (lo \div q) % 2 = 0 THEN lo ELSE lo + q

\* the largest finite float below x (0 stays 0)
FPrev(x) ==
    IF x = 0 THEN 0
    ELSE IF ~IsFinite(x) THEN MaxFinite
    ELSE x - Quantum(x - 1)

---------------------------------------------------------------------------
(* Python dicts: insertion-ordered sequences of <<key, value>> pairs.      *)

Keys(d) == {d[i][1] : i \in 1..Len(d)}

KeyList(d) == [i \in 1..Len(d) |-> d[i][1]]

HasKey(d, k) == k \in Keys(d)

DictGet(d, k) == d[CHOOSE i \in 1..Len(d) : d[i][1] = k][2]

\* d[k] = v: an existing key keeps its position and takes the new value
DictSet(d, k, v) ==
    IF HasKey(d, k)
    THEN [i \in 1..Len(d) |-> IF d[i][1] = k THEN <<k, v>> ELSE d[i]]
    ELSE Append(d, <<k, v>>)

\* {**a, **b}
RECURSIVE DictMerge(_, _)
DictMerge(a, b) ==
    IF b = <<>> THEN a ELSE DictMerge(DictSet(a, Head(b)[1], Head(b)[2]), Tail(b))

---------------------------------------------------------------------------
(* The inputs: model types, configurations, what the output directory      *)
(* holds, what the loaders and the batches return.                         *)

ValidModelTypes == {"MLP", "MLP_3CH", "CNN", "CNN_3CH"}

ModelTypes == ValidModelTypes \cup {"RNN"}

MlpConfig == << <<"batch_size", 32>>, <<"learning_rate", 1>>, <<"fc1_hidden", 64>>,
                <<"fc2_hidden", 32>>, <<"fc3_hidden", 16>> >>

CnnConfig == << <<"batch_size", 64>>, <<"learning_rate", 2>>, <<"cha_input", 8>>,
                <<"cha_hidden", 16>>, <<"fc_hidden", 32>> >>

\* an MLP configuration without learning_rate
NoRateConfig == << <<"batch_size", 16>>, <<"fc1_hidden", 64>>, <<"fc2_hidden", 32>>,
                   <<"fc3_hidden", 16>> >>

\* an MLP configuration without batch_size
NoBatchConfig == << <<"learning_rate", 3>>, <<"fc1_hidden", 64>>, <<"fc2_hidden", 32>>,
                    <<"fc3_hidden", 16>> >>

\* an MLP configuration that carries fields named like the derived ones
TaggedConfig == << <<"batch_size", 128>>, <<"learning_rate", 4>>, <<"fc1_hidden", 64>>,
                   <<"fc2_hidden", 32>>, <<"fc3_hidden", 16>>, <<"model_index", 7>>,
                   <<"accuracy", 50>> >>

ConfigSet == {MlpConfig, CnnConfig, NoRateConfig, NoBatchConfig, TaggedConfig}

ConfigLists == UNION {[1..n -> ConfigSet] : n \in 0..MaxConfigs}

ImageDim == 28

NoOrder == <<>>

\* (rows1, columns1) of load_training_data and (rows, columns) of load_testing_data
ShuffleOutcomes ==
    { <<NoOrder, NoOrder, NoOrder, NoOrder>>,
      << <<2, 1>>, <<1, 2>>, <<2, 1>>, <<1, 2>> >>,
      << <<2, 1>>, <<1, 2>>, <<1, 2>>, <<1, 2>> >>,
      << <<2, 1>>, <<1, 2>>, <<2, 1>>, <<2, 1>> >>,
      << <<2, 1>>, <<1, 2>>, NoOrder, NoOrder>> }

\* (len(train_loader), len(val_loader))
LoaderSizes == { <<0, 0>>, <<1, 0>>, <<3, 3>> }

LoopLoaderSizes == LoaderSizes \cup { <<3, 1>> }

\* (accuracy, f1, precision, recall, num_params) of one trained model
TestOutcomes == { <<90, 89, 88, 87, 1000>>, <<10, 9, 8, 7, 2000>> }

NoModel == [type |-> "none", input_dim |-> 0, widths |-> <<>>]

NoRet == [train_losses |-> <<>>, val_losses |-> <<>>, accuracy |-> 0, f1 |-> 0,
          precision |-> 0, recall |-> 0, num_params |-> 0]

\* a file: whether it exists and its lines (CSV) or its top-level entries (JSON);
\* complete is FALSE for a JSON file opened for writing and not yet dumped into
NoFile == [exists |-> FALSE, complete |-> TRUE, content |-> <<>>]

EmptyFile == [exists |-> TRUE, complete |-> TRUE, content |-> <<>>]

HeaderLine(cols) == [kind |-> "header", cells |-> cols]

RowLine(vals) == [kind |-> "row", cells |-> vals]

\* the files an earlier run of the same model type and dataset left behind
StaleCsv == [exists |-> TRUE, complete |-> TRUE,
             content |-> << HeaderLine(<<"model_index", "batch_size">>),
                            RowLine(<<0, 256>>), RowLine(<<1, 512>>) >>]

StaleJson == [exists |-> TRUE, complete |-> TRUE,
              content |-> << << <<"model_", 0>>,
                                [train_losses |-> <<Fl(1)>>, val_losses |-> <<Fl(1)>>] >>,
                             << <<"model_", 1>>,
                                [train_losses |-> <<Fl(2)>>, val_losses |-> <<Fl(2)>>] >> >>]

OutDirStates == { [csv |-> NoFile, json |-> NoFile],
                  [csv |-> EmptyFile, json |-> NoFile],
                  [csv |-> StaleCsv, json |-> StaleJson] }

---------------------------------------------------------------------------
(* The cumulative losses the batches of each epoch add up to.  A feed is   *)
(* MaxEpochs values: a free prefix, then a value that strictly improves on *)
(* everything before it every k-th epoch and repeats the previous value in *)
(* the other epochs.                                                       *)

LossVals == {Fl(9), Fl(13), Fl(14), PosInf, NaN}

RECURSIVE LeastOf(_)
LeastOf(s) ==
    IF s = <<>> THEN PosInf
    ELSE LET m == LeastOf(SubSeq(s, 1, Len(s) - 1))
         IN  IF FLess(s[Len(s)], m) THEN s[Len(s)] ELSE m

RECURSIVE BuildFeed(_, _, _)
BuildFeed(s, from, k) ==
    IF Len(s) >= MaxEpochs THEN SubSeq(s, 1, MaxEpochs)
    ELSE BuildFeed(Append(s, IF (Len(s) + 1 - from) % k = 0
                             THEN FPrev(LeastOf(s))
                             ELSE s[Len(s)]),
                   from, k)

SyntheticPrefix == <<Fl(10), Fl(9), Fl(9), Fl(9), Fl(9), Fl(9), Fl(5)>>

ValFeeds ==
    { BuildFeed(p, PrefixLen, k) : p \in [1..PrefixLen -> LossVals], k \in 1..MaxPeriod }
    \cup { BuildFeed(SyntheticPrefix, Len(SyntheticPrefix), k) : k \in 1..MaxPeriod }

TrainFeeds == { BuildFeed(<<Fl(14)>>, 1, 1), BuildFeed(<<Fl(9)>>, 1, MaxEpochs) }

\* the feeds of a run of main_train: one that trains to the last epoch, one
\* that stops early
MainValFeeds == { BuildFeed(SyntheticPrefix, Len(SyntheticPrefix), 1),
                  BuildFeed(<<Fl(9)>>, 1, MaxEpochs) }

MainTrainFeeds == { BuildFeed(<<Fl(14)>>, 1, 1) }

---------------------------------------------------------------------------
(* train_and_evaluate                                                      *)

Abort(e) == /\ pc' = "aborted"
            /\ error' = e

CurrentConfig == configurations[idx + 1]

\* lines 28-37: both loaders are built with config["batch_size"]
LoadData ==
    /\ pc = "load"
    /\ IF ~HasKey(CurrentConfig, "batch_size")
       THEN /\ Abort("KeyError")
            /\ UNCHANGED <<shuffle_train, shuffle_test, train_batches, val_batches>>
       ELSE /\ \E o \in ShuffleOutcomes :
                 /\ shuffle_train' = <<o[1], o[2]>>
                 /\ shuffle_test' = <<o[3], o[4]>>
            /\ \E n \in LoaderSizes :
                 /\ train_batches' = n[1]
                 /\ val_batches' = n[2]
            /\ pc' = "check"
            /\ UNCHANGED error
    /\ UNCHANGED <<main_vars, loop_vars, model, ret, train_feed, val_feed>>

\* lines 39-42: the assertions the code makes about the two pairs
ShuffleAssertionsHold(tr, te) ==
    /\ (tr[2] # NoOrder /\ te[2] # NoOrder) => tr[2] = te[2]
    /\ (tr[1] # NoOrder /\ te[1] # NoOrder) => tr[1] = te[1]

CheckShuffle ==
    /\ pc = "check"
    /\ IF ShuffleAssertionsHold(shuffle_train, shuffle_test)
       THEN pc' = "build" /\ UNCHANGED error
       ELSE Abort("AssertionError")
    /\ UNCHANGED <<main_vars, loop_vars, shuffle_train, shuffle_test, train_batches,
                   val_batches, model, ret, train_feed, val_feed>>

\* no branch reads a width key
WidthKeysNone(mt) == <<>>

\* lines 44-69: the configuration keys each branch reads
WidthKeys(mt) ==
    IF mt \in {"MLP", "MLP_3CH"} THEN <<"fc1_hidden", "fc2_hidden", "fc3_hidden">>
    ELSE IF mt \in {"CNN", "CNN_3CH"} THEN <<"cha_input", "cha_hidden", "fc_hidden">>
    ELSE <<>>

\* lines 46, 53: input_dim of the MLP branches (the CNN classes take none)
InputDim(mt) ==
    IF mt = "MLP" THEN ImageDim * ImageDim
    ELSE IF mt = "MLP_3CH" THEN 3 * ImageDim * ImageDim
    ELSE 0

\* lines 44-71
BuildModel ==
    /\ pc = "build"
    /\ IF model_type \notin ValidModelTypes
       THEN Abort("ValueError") /\ UNCHANGED model
       ELSE IF \E i \in 1..Len(WidthKeys(model_type)) :
                  ~HasKey(CurrentConfig, WidthKeys(model_type)[i])
       THEN Abort("KeyError") /\ UNCHANGED model
       ELSE /\ model' = [type |-> model_type,
                         input_dim |-> InputDim(model_type),
                         widths |-> [i \in 1..Len(WidthKeys(model_type)) |->
                                       DictGet(CurrentConfig, WidthKeys(model_type)[i])]]
            /\ pc' = "optim"
            /\ UNCHANGED error
    /\ UNCHANGED <<main_vars, loop_vars, shuffle_train, shuffle_test, train_batches,
                   val_batches, ret, train_feed, val_feed>>

\* lines 73-78: the optimizer reads config["learning_rate"]; the histories and
\* the strike counter start empty.  What the batches will add up to is fixed
\* from here on (the data, the seeds and the model are).
MakeOptimizer ==
    /\ pc = "optim"
    /\ IF ~HasKey(CurrentConfig, "learning_rate")
       THEN /\ Abort("KeyError")
            /\ UNCHANGED <<loop_vars, train_feed, val_feed>>
       ELSE /\ train_losses' = <<>>
            /\ val_losses' = <<>>
            /\ epochs_without_improvement' = 0
            /\ UNCHANGED <<best_val_loss, epoch, stopped_early>>
            /\ train_feed' \in MainTrainFeeds
            /\ val_feed' \in MainValFeeds
            /\ pc' = "epoch"
            /\ UNCHANGED error
    /\ UNCHANGED <<main_vars, shuffle_train, shuffle_test, train_batches, val_batches,
                   model, ret>>

\* a loss equal to the best one counted as an improvement
ImprovedOrEqual(epoch_val_loss, best) ==
    epoch_val_loss # NaN /\ best # NaN /\ epoch_val_loss <= best

\* the comparison turned around
ImprovedReversed(epoch_val_loss, best) == FLess(best, epoch_val_loss)

\* line 108
Improved(epoch_val_loss, best) == FLess(epoch_val_loss, best)

\* the break taken one strike early
PatienceExhaustedEarly(strikes) == strikes >= patience - 1

\* line 113
PatienceExhausted(strikes) == strikes >= patience

\* lines 93, 105: the recorded value of an epoch
EpochMean(total, batches) == FDiv(total, batches)

\* lines 80-115: one iteration of the epoch loop
EpochStep ==
    /\ pc = "epoch"
    /\ epoch < MaxEpochs
    /\ LET epoch_train_loss == train_feed[epoch + 1]
           epoch_val_loss   == val_feed[epoch + 1]
       IN  IF train_batches = 0
           THEN /\ Abort("ZeroDivisionError")
                /\ UNCHANGED loop_vars
           ELSE IF val_batches = 0
           THEN /\ Abort("ZeroDivisionError")
                /\ train_losses' = Append(train_losses,
                                          EpochMean(epoch_train_loss, train_batches))
                /\ UNCHANGED <<best_val_loss, epochs_without_improvement, epoch,
                               val_losses, stopped_early>>
           ELSE /\ train_losses' = Append(train_losses,
                                          EpochMean(epoch_train_loss, train_batches))
                /\ val_losses' = Append(val_losses,
                                        EpochMean(epoch_val_loss, val_batches))
                /\ epoch' = epoch + 1
                /\ UNCHANGED error
                /\ IF Improved(epoch_val_loss, best_val_loss)
                   THEN /\ best_val_loss' = epoch_val_loss
                        /\ epochs_without_improvement' = 0
                        /\ UNCHANGED <<stopped_early, pc>>
                   ELSE /\ epochs_without_improvement' = epochs_without_improvement + 1
                        /\ UNCHANGED best_val_loss
                        /\ IF PatienceExhausted(epochs_without_improvement + 1)
                           THEN stopped_early' = TRUE /\ pc' = "test"
                           ELSE UNCHANGED <<stopped_early, pc>>
    /\ UNCHANGED <<main_vars, shuffle_train, shuffle_test, train_batches, val_batches,
                   model, ret, train_feed, val_feed>>

\* line 80: range(25) is exhausted
LoopExhausted ==
    /\ pc = "epoch"
    /\ epoch >= MaxEpochs
    /\ pc' = "test"
    /\ UNCHANGED <<error, main_vars, loop_vars, shuffle_train, shuffle_test,
                   train_batches, val_batches, model, ret, train_feed, val_feed>>

\* lines 117-138: the test pass, the metrics, the parameter count, the return
TestPhase ==
    /\ pc = "test"
    /\ \E o \in TestOutcomes :
         ret' = [train_losses |-> train_losses, val_losses |-> val_losses,
                 accuracy |-> o[1], f1 |-> o[2], precision |-> o[3], recall |-> o[4],
                 num_params |-> o[5]]
    /\ pc' = "store"
    /\ UNCHANGED <<error, main_vars, loop_vars, shuffle_train, shuffle_test,
                   train_batches, val_batches, model, train_feed, val_feed>>

---------------------------------------------------------------------------
(* main_train                                                              *)

\* lines 158-167: the next configuration, or the end of the list.  The call
\* starts with line 25; the locals of the previous call are gone.
NextConfiguration ==
    /\ pc = "main_loop"
    /\ IF idx < Len(configurations)
       THEN /\ pc' = "load"
            /\ best_val_loss' = PosInf
            /\ epochs_without_improvement' = 0
            /\ epoch' = 0
            /\ train_losses' = <<>>
            /\ val_losses' = <<>>
            /\ stopped_early' = FALSE
            /\ shuffle_train' = <<NoOrder, NoOrder>>
            /\ shuffle_test' = <<NoOrder, NoOrder>>
            /\ train_batches' = 0
            /\ val_batches' = 0
            /\ model' = NoModel
            /\ ret' = NoRet
       ELSE /\ pc' = "final_csv"
            /\ UNCHANGED <<loop_vars, shuffle_train, shuffle_test, train_batches,
                           val_batches, model, ret>>
    /\ UNCHANGED <<error, main_vars, train_feed, val_feed>>

\* lines 170-178: the dict display, evaluated left to right
ResultRecord(i, config, r) ==
    LET d0 == DictMerge(<< <<"model_index", i>> >>, config)
        d1 == DictSet(d0, "num_params", r.num_params)
        d2 == DictSet(d1, "accuracy", r.accuracy)
        d3 == DictSet(d2, "f1", r.f1)
        d4 == DictSet(d3, "precision", r.precision)
    IN  DictSet(d4, "recall", r.recall)

\* line 181: f"model_{idx}"
LossKey(i) == <<"model_", i>>

\* lines 170-184
StoreResults ==
    /\ pc = "store"
    /\ results' = Append(results, ResultRecord(idx, CurrentConfig, ret))
    /\ all_losses' = DictSet(all_losses, LossKey(idx),
                             [train_losses |-> ret.train_losses,
                              val_losses |-> ret.val_losses])
    /\ pc' = "csv_append"
    /\ UNCHANGED <<error, model_type, configurations, idx, csv_file, json_file,
                   loop_vars, shuffle_train, shuffle_test, train_batches, val_batches,
                   model, ret, train_feed, val_feed>>

Values(d) == [i \in 1..Len(d) |-> d[i][2]]

\* line 188: pd.DataFrame([record]).to_csv(f, header=f.tell() == 0, index=False)
\* on a file opened in mode "a"
CsvAppended(file, record) ==
    [exists |-> TRUE, complete |-> TRUE,
     content |-> (IF file.content = <<>>
                  THEN <<HeaderLine(KeyList(record))>> ELSE <<>>)
                 \o file.content \o <<RowLine(Values(record))>>]

\* lines 187-188
CsvAppend ==
    /\ pc = "csv_append"
    /\ csv_file' = CsvAppended(csv_file, results[Len(results)])
    /\ pc' = "json_open"
    /\ UNCHANGED <<error, model_type, configurations, idx, results, all_losses,
                   json_file, loop_vars, shuffle_train, shuffle_test, train_batches,
                   val_batches, model, ret, train_feed, val_feed>>

\* line 190: open(..., "w") creates the file or truncates it
JsonOpen ==
    /\ pc = "json_open"
    /\ json_file' = [exists |-> TRUE, complete |-> FALSE, content |-> <<>>]
    /\ pc' = "json_dump"
    /\ UNCHANGED <<error, model_type, configurations, idx, results, all_losses,
                   csv_file, loop_vars, shuffle_train, shuffle_test, train_batches,
                   val_batches, model, ret, train_feed, val_feed>>

\* lines 191, 200: json.dump(all_losses, f, indent=4)
JsonDumped(losses) == [exists |-> TRUE, complete |-> TRUE, content |-> losses]

\* line 191, then the next iteration of line 158
JsonDump ==
    /\ pc = "json_dump"
    /\ json_file' = JsonDumped(all_losses)
    /\ idx' = idx + 1
    /\ pc' = "main_loop"
    /\ UNCHANGED <<error, model_type, configurations, results, all_losses, csv_file,
                   loop_vars, shuffle_train, shuffle_test, train_batches, val_batches,
                   model, ret, train_feed, val_feed>>

\* the columns of pd.DataFrame(records): the keys in order of first appearance
RECURSIVE Columns(_)
Columns(records) ==
    IF records = <<>> THEN <<>>
    ELSE LET before == Columns(SubSeq(records, 1, Len(records) - 1))
             last   == KeyList(records[Len(records)])
         IN  before \o SelectSeq(last,
                                 LAMBDA k : k \notin {before[i] : i \in 1..Len(before)})

\* a cell no record fills (pandas writes it empty)
EmptyCell == 0 - 1

\* the final rewrite left out: the file stays as the appends left it
CsvNotRewritten(records) == csv_file

\* lines 194-195: pd.DataFrame(results).to_csv(path, index=False) replaces the file
CsvRewritten(records) ==
    LET cols == Columns(records)
    IN  [exists |-> TRUE, complete |-> TRUE,
         content |-> <<HeaderLine(cols)>> \o
                     [i \in 1..Len(records) |->
                        RowLine([c \in 1..Len(cols) |->
                                   IF HasKey(records[i], cols[c])
                                   THEN DictGet(records[i], cols[c])
                                   ELSE EmptyCell])]]

\* lines 194-196
FinalCsv ==
    /\ pc = "final_csv"
    /\ csv_file' = CsvRewritten(results)
    /\ pc' = "final_json"
    /\ UNCHANGED <<error, model_type, configurations, idx, results, all_losses,
                   json_file, loop_vars, shuffle_train, shuffle_test, train_batches,
                   val_batches, model, ret, train_feed, val_feed>>

\* lines 199-201
FinalJson ==
    /\ pc = "final_json"
    /\ json_file' = JsonDumped(all_losses)
    /\ pc' = "done"
    /\ UNCHANGED <<error, model_type, configurations, idx, results, all_losses,
                   csv_file, loop_vars, shuffle_train, shuffle_test, train_batches,
                   val_batches, model, ret, train_feed, val_feed>>

\* the statements that process one configuration (lines 163-191)
ProcessingPcs == {"load", "check", "build", "optim", "epoch", "test", "store",
                  "csv_append", "json_open", "json_dump"}

\* an exception out of a collaborator or the operating system (a loader, the
\* model, a write to the output directory) while a configuration is processed:
\* main_train catches nothing, the process ends
Failure ==
    /\ pc \in ProcessingPcs
    /\ Abort("Failure")
    /\ UNCHANGED <<main_vars, loop_vars, shuffle_train, shuffle_test, train_batches,
                   val_batches, model, ret, train_feed, val_feed>>

---------------------------------------------------------------------------
(* Specifications.                                                         *)

\* main_train from line 155 on, for every model type, configuration list and
\* output directory
Init ==
    /\ pc = "main_loop"
    /\ error = "none"
    /\ model_type \in ModelTypes
    /\ configurations \in ConfigLists
    /\ idx = 0
    /\ results = <<>>
    /\ all_losses = <<>>
    /\ \E d \in OutDirStates : csv_file = d.csv /\ json_file = d.json
    /\ shuffle_train = <<NoOrder, NoOrder>>
    /\ shuffle_test = <<NoOrder, NoOrder>>
    /\ train_batches = 0
    /\ val_batches = 0
    /\ model = NoModel
    /\ best_val_loss = PosInf
    /\ epochs_without_improvement = 0
    /\ epoch = 0
    /\ train_losses = <<>>
    /\ val_losses = <<>>
    /\ stopped_early = FALSE
    /\ ret = NoRet
    /\ train_feed = <<>>
    /\ val_feed = <<>>

Next ==
    \/ NextConfiguration
    \/ LoadData
    \/ CheckShuffle
    \/ BuildModel
    \/ MakeOptimizer
    \/ EpochStep
    \/ LoopExhausted
    \/ TestPhase
    \/ StoreResults
    \/ CsvAppend
    \/ JsonOpen
    \/ JsonDump
    \/ FinalCsv
    \/ FinalJson
    \/ Failure

Spec == Init /\ [][Next]_vars

\* the epoch loop of one call of train_and_evaluate (lines 76-115), for every
\* feed of cumulative losses and every pair of loader sizes
LoopInit ==
    /\ pc = "epoch"
    /\ error = "none"
    /\ model_type = "MLP"
    /\ configurations = <<MlpConfig>>
    /\ idx = 0
    /\ results = <<>>
    /\ all_losses = <<>>
    /\ csv_file = NoFile
    /\ json_file = NoFile
    /\ shuffle_train = <<NoOrder, NoOrder>>
    /\ shuffle_test = <<NoOrder, NoOrder>>
    /\ \E n \in LoopLoaderSizes : train_batches = n[1] /\ val_batches = n[2]
    /\ model = [type |-> "MLP", input_dim |-> InputDim("MLP"),
                widths |-> <<64, 32, 16>>]
    /\ best_val_loss = PosInf
    /\ epochs_without_improvement = 0
    /\ epoch = 0
    /\ train_losses = <<>>
    /\ val_losses = <<>>
    /\ stopped_early = FALSE
    /\ ret = NoRet
    /\ train_feed \in TrainFeeds
    /\ val_feed \in ValFeeds

LoopNext ==
    \/ EpochStep
    \/ LoopExhausted
    \/ TestPhase

LoopSpec == LoopInit /\ [][LoopNext]_vars

---------------------------------------------------------------------------
(* Properties of the epoch loop, checked under LoopSpec.                   *)

\* the best cumulative validation loss of epochs 1..n (+inf before the first)
\* and the epochs among them that did not strictly improve on the best loss
\* seen before them
RECURSIVE Scan(_)
Scan(n) ==
    IF n = 0 THEN [best |-> PosInf, strikes |-> {}]
    ELSE LET before == Scan(n - 1)
         IN  IF FLess(val_feed[n], before.best)
             THEN [best |-> val_feed[n], strikes |-> before.strikes]
             ELSE [best |-> before.best, strikes |-> before.strikes \cup {n}]

\* epochs e-4 .. e are five consecutive strikes
FiveStrikes(e, strikes) == e >= 5 /\ (e - 4)..e \subseteq strikes

EarlyStopIffFiveStrikes(n, strikes) ==
    /\ stopped_early =>
         /\ FiveStrikes(n, strikes)
         /\ n <= 25
         /\ epoch = n
         /\ Len(train_losses) = n
         /\ val_losses[n] = FDiv(val_feed[n], val_batches)
         /\ train_losses[n] = FDiv(train_feed[n], train_batches)
    /\ \A e \in 5..n : FiveStrikes(e, strikes) => (e = n /\ stopped_early)

\* C1: the loop breaks at the end of epoch e (e <= 25) exactly when epochs
\* e-4..e each had a cumulative validation loss not strictly less than the best
\* loss seen before that epoch and it has not broken earlier; the breaking
\* epoch's train and validation losses are already in the history.
C1_EarlyStopIffFiveStrikes ==
    EarlyStopIffFiveStrikes(Len(val_losses), Scan(Len(val_losses)).strikes)

\* C1 witness: the loop broke at an epoch later than the sixth
C1_Witness == stopped_early /\ pc = "test" /\ epoch >= 8

HasSyntheticLosses ==
    /\ train_batches > 0
    /\ val_batches > 0
    /\ SubSeq(val_feed, 1, 7) = <<Fl(10), Fl(9), Fl(9), Fl(9), Fl(9), Fl(9), Fl(5)>>

\* C2 as stated: with cumulative validation losses 10, 9, 9, 9, 9, 9, 5 the loop
\* stops by early stopping at epoch 6 and epoch 7 is never executed.
C2_StopsAtEpochSix ==
    HasSyntheticLosses => (epoch <= 6 /\ (epoch = 6 => stopped_early))

\* C2 amended: with cumulative validation losses 10, 9, 9, 9, 9, 9, 5 the loop
\* does not stop at epoch 6: epoch 2 improves on epoch 1, so after epoch 6 the
\* strike counter is 4; epoch 7 is executed, improves on 9 and resets the
\* counter to 0.
C2_FourStrikesThenImprovement ==
    HasSyntheticLosses =>
        /\ epoch <= 7 => ~stopped_early /\ Len(val_losses) = epoch
        /\ epoch = 6 => epochs_without_improvement = 4 /\ pc = "epoch"
        /\ epoch = 7 => epochs_without_improvement = 0 /\ best_val_loss = Fl(5)

\* C2 witness: the seventh epoch of the synthetic sequence has run
C2_Witness == HasSyntheticLosses /\ epoch = 7 /\ Len(val_losses) = 7

IsPrefix(s, t) == Len(s) <= Len(t) /\ SubSeq(t, 1, Len(s)) = s

\* C3: the returned train_losses and val_losses have equal length, at most 25;
\* entries are only ever appended, one train and one validation entry per
\* executed epoch; the length is less than 25 only if early stopping triggered
\* (the strike counter reached 5).
C3_HistoryLengths ==
    [][ /\ IsPrefix(train_losses, train_losses')
        /\ IsPrefix(val_losses, val_losses')
        /\ Len(train_losses') <= Len(train_losses) + 1
        /\ Len(val_losses') <= Len(val_losses) + 1
        /\ epoch' = Len(val_losses')
        /\ pc' \in {"epoch", "test", "store"} => Len(train_losses') = Len(val_losses')
        /\ pc' = "store" =>
             /\ ret'.train_losses = train_losses'
             /\ ret'.val_losses = val_losses'
             /\ Len(ret'.train_losses) = Len(ret'.val_losses)
             /\ Len(ret'.val_losses) <= 25
             /\ Len(ret'.val_losses) < 25 =>
                  stopped_early' /\ epochs_without_improvement' >= 5 ]_vars

\* C3 witness: a history shorter than 25 epochs was returned
C3_Witness ==
    pc = "store" /\ Len(ret.val_losses) \in 1..24 /\ Len(ret.train_losses) \in 1..24

\* the epoch just run was recorded
EpochRecorded == Len(val_losses') = Len(val_losses) + 1

\* the code's decision: the comparison of line 108 on the cumulative loss
CodeImproved == epochs_without_improvement' = 0

\* the decision on the recorded means: the new entry of val_losses against the
\* least of the earlier entries
MeanImproved == FLess(val_losses'[Len(val_losses')], LeastOf(val_losses))

\* the strike counter a rule on the recorded means would hold after history h
RECURSIVE MeanStrikes(_)
MeanStrikes(h) ==
    IF h = <<>> THEN 0
    ELSE IF FLess(h[Len(h)], LeastOf(SubSeq(h, 1, Len(h) - 1))) THEN 0
    ELSE MeanStrikes(SubSeq(h, 1, Len(h) - 1)) + 1

\* C10 as stated: with a positive constant validation batch count the code's
\* improve/strike outcome of every epoch equals the outcome of comparing that
\* epoch's entry of val_losses against the minimum of the earlier entries.
C10_SumAndMeanDecideAlike ==
    [][EpochRecorded => (CodeImproved <=> MeanImproved)]_vars

\* C10 amended: the comparison on the recorded means reports an improvement
\* only when the code's comparison on the sums does; when the code reports an
\* improvement the recorded mean is at most the least earlier entry; the strike
\* counter of the rule on the means is never below the code's.
C10_MeanImprovementImpliesSumImprovement ==
    [][EpochRecorded =>
         /\ MeanImproved => CodeImproved
         /\ CodeImproved =>
              ~FLess(LeastOf(val_losses), val_losses'[Len(val_losses')])
         /\ MeanStrikes(val_losses') >= epochs_without_improvement' ]_vars

\* C10 witness: with three validation batches an epoch after the first improved
\* under both quantities
C10_Witness ==
    /\ val_batches = 3
    /\ Len(val_losses) >= 2
    /\ epochs_without_improvement = 0
    /\ FLess(val_losses[Len(val_losses)],
             LeastOf(SubSeq(val_losses, 1, Len(val_losses) - 1)))

---------------------------------------------------------------------------
(* Properties of main_train, checked under Spec.                           *)

\* the call of train_and_evaluate went past the shuffle-order check
PastShuffleCheck == pc \in {"build", "optim", "epoch", "test"}

\* C4 as stated: whenever the pair returned by load_training_data differs from
\* the pair returned by load_testing_data in any way, the run aborts before a
\* model is built or an epoch is run.
C4_MismatchNeverPassesTheCheck ==
    PastShuffleCheck => shuffle_train = shuffle_test

DataRows(file) == SelectSeq(file.content, LAMBDA l : l.kind = "row")

HeaderLines(file) == SelectSeq(file.content, LAMBDA l : l.kind = "header")

\* the position of column c in a header line
ColumnOf(header, c) == CHOOSE i \in 1..Len(header.cells) : header.cells[i] = c

\* C5: when main_train finishes without error the result file is one header
\* line followed by exactly N data rows, one per configuration in list order,
\* and the loss-history file has exactly the keys model_0 .. model_(N-1),
\* whatever the output directory held before and wherever each run stopped.
C5_FinalFilesHoldOneEntryPerConfiguration ==
    pc = "done" =>
        LET N == Len(configurations)
        IN  /\ csv_file.exists
            /\ Len(csv_file.content) = N + 1
            /\ csv_file.content[1].kind = "header"
            /\ \A i \in 1..N :
                 /\ csv_file.content[i + 1].kind = "row"
                 /\ Len(csv_file.content[i + 1].cells) = Len(csv_file.content[1].cells)
                 /\ csv_file.content[i + 1].cells[ColumnOf(csv_file.content[1],
                                                            "batch_size")]
                      = DictGet(configurations[i], "batch_size")
            /\ json_file.exists
            /\ json_file.complete
            /\ KeyList(json_file.content) = [i \in 1..N |-> <<"model_", i - 1>>]

\* C5 witness: a run over two configurations that stopped at different epochs
\* has finished
C5_Witness ==
    /\ pc = "done"
    /\ Len(configurations) = 2
    /\ Len(json_file.content) = 2
    /\ Len(json_file.content[1][2].val_losses) # Len(json_file.content[2][2].val_losses)

\* C6 as stated: after the persistence steps of configuration k and before
\* configuration k+1 starts, the result file holds exactly k+1 data rows after
\* a single header and the loss-history file exactly k+1 entries, whatever the
\* output directory contained when the run began.
C6_FilesHoldExactlyTheConfigurationsDone ==
    (pc = "main_loop" /\ idx >= 1) =>
        /\ Len(DataRows(csv_file)) = idx
        /\ Len(HeaderLines(csv_file)) = 1
        /\ csv_file.content[1].kind = "header"
        /\ json_file.complete
        /\ Len(json_file.content) = idx

\* C7 as stated: a failure at whatever point of the processing of configuration
\* k leaves the rows of configurations 0..k-1 in the result file and the entries
\* model_0..model_(k-1) in the loss-history file, unchanged.
C7_FailureKeepsEarlierResults ==
    pc = "aborted" =>
        \A j \in 1..idx :
            /\ \E n \in 1..Len(csv_file.content) :
                 /\ csv_file.content[n].kind = "row"
                 /\ csv_file.content[n].cells = Values(results[j])
            /\ HasKey(json_file.content, <<"model_", j - 1>>)
            /\ DictGet(json_file.content, <<"model_", j - 1>>)
                 = DictGet(all_losses, <<"model_", j - 1>>)

\* the keys a model type requires of a configuration
RequiredKeys(mt) ==
    {"batch_size", "learning_rate"} \cup
    (IF mt \in {"MLP", "MLP_3CH"} THEN {"fc1_hidden", "fc2_hidden", "fc3_hidden"}
     ELSE IF mt \in {"CNN", "CNN_3CH"} THEN {"cha_input", "cha_hidden", "fc_hidden"}
     ELSE {})

Offending(mt, config) ==
    \/ mt \notin {"MLP", "MLP_3CH", "CNN", "CNN_3CH"}
    \/ \E k \in RequiredKeys(mt) : ~HasKey(config, k)

ConfigurationError == pc = "aborted" /\ error \in {"KeyError", "ValueError"}

\* what the appends of the records rs make of a result file
RECURSIVE CsvAfter(_, _)
CsvAfter(file, rs) ==
    IF rs = <<>> THEN file
    ELSE CsvAppended(CsvAfter(file, SubSeq(rs, 1, Len(rs) - 1)), rs[Len(rs)])

\* the files hold what the configurations before idx wrote and nothing of the
\* configuration at idx
OnlyEarlierConfigurationsWritten ==
    /\ Len(results) = idx
    /\ Len(all_losses) = idx
    /\ \E d \in OutDirStates :
         /\ csv_file = CsvAfter(d.csv, results)
         /\ json_file = IF idx = 0 THEN d.json
                        ELSE [exists |-> TRUE, complete |-> TRUE, content |-> all_losses]

\* C8 as stated: when the model type is unknown or a configuration lacks a
\* required key, main_train aborts with no training epoch executed at the moment
\* of the abort, and nothing is written for the offending configuration.
C8_NoEpochBeforeConfigurationError ==
    ConfigurationError =>
        /\ train_losses = <<>>
        /\ results = <<>>
        /\ all_losses = <<>>
        /\ OnlyEarlierConfigurationsWritten

\* C8 amended: an offending configuration never reaches the epoch loop, and at
\* the abort no training epoch of the offending configuration has been executed
\* and no result row or loss entry has been written for it; the configurations
\* before it have been trained and what they wrote is still there.
C8_NoEpochOfTheOffendingConfiguration ==
    /\ pc \in {"epoch", "test", "store", "csv_append", "json_open", "json_dump"} =>
         ~Offending(model_type, configurations[idx + 1])
    /\ ConfigurationError =>
         /\ Offending(model_type, configurations[idx + 1])
         /\ epoch = 0
         /\ train_losses = <<>>
         /\ val_losses = <<>>
         /\ OnlyEarlierConfigurationsWritten

\* C8 witness: the second configuration of the list lacks a key; the first one
\* was trained
C8_Witness ==
    /\ ConfigurationError
    /\ error = "KeyError"
    /\ idx = 1
    /\ Len(DataRows(csv_file)) >= 1

\* C9 as stated: the record of the i-th configuration (0-based) has
\* model_index = i, all of the configuration's fields with their original
\* values, and the derived fields.
C9_RecordsKeyedByPosition ==
    \A i \in 1..Len(results) :
        /\ DictGet(results[i], "model_index") = i - 1
        /\ \A k \in Keys(configurations[i]) :
             DictGet(results[i], k) = DictGet(configurations[i], k)
        /\ {"num_params", "accuracy", "f1", "precision", "recall"} \subseteq Keys(results[i])

====
